---- MODULE Spec2Model ----
(***************************************************************************)
(* LoanRepaymentPredictor: DecisionTree (CART by Gini impurity over an     *)
(* in-place partitioned feature matrix), RandomForest (bagging, majority   *)
(* vote, accuracy) and k-fold cross-validation.                            *)
(*                                                                         *)
(* Conventions.  C++ vectors are functions over 0..n-1, so start, end, mid *)
(* and every index read exactly as in the source.  A dataset row is a      *)
(* vector whose last element is the label.  Feature values are the even    *)
(* integers 0, 2, .., so the threshold (a + b) / 2 of two feature values   *)
(* is an exact integer, as it is an exact double in the source.  A Gini    *)
(* index is the exact fraction num/den of the double the source computes;  *)
(* numeric_limits<double>::max() is the fraction 1/0.  An accuracy is a    *)
(* fraction too, with nan set when the source divides zero by zero.        *)
(* pc = "undefined" is the outcome of undefined behaviour that the build   *)
(* cannot survive in a defined way (null or out-of-range access, integer   *)
(* division by zero).                                                      *)
(* pc = "done" is the caller holding the value a query returned; queries    *)
(* change nothing, so the model follows each run up to its first query.    *)
(***************************************************************************)
EXTENDS Integers, Sequences, FiniteSets, TLC

\* ---------------------------------------------------------------- bounds
MaxRows == 3
MaxFeat == 1
RetrainRows == 2
ForestRows == 2
MaxTrees == 3
KFoldRows == 3

\* the feature values and the class labels (repaid or not) datasets are drawn from
Vals == {0, 2}
Labels == {0, 1}

\* vectors over 0..n-1
Vec(n, S) == [0..(n - 1) -> S]
Size(v) == Cardinality(DOMAIN v)
EmptyVec == [i \in {} |-> 0]

\* datasets: n rows of nf features and a trailing label
RowsOf(nf) == {[c \in 0..nf |-> IF c = nf THEN l ELSE f[c]] : f \in Vec(nf, Vals), l \in Labels}
DatasetsOf(nf, maxn) == UNION {Vec(n, RowsOf(nf)) : n \in 0..maxn}
TreeDatasets == UNION {DatasetsOf(nf, MaxRows) : nf \in 0..MaxFeat}

\* the orders in which an unordered_set of the feature indices can iterate
Perms(n) == {p \in [1..n -> 0..(n - 1)] : \A i, j \in 1..n : p[i] = p[j] => i = j}

VARIABLES
  default_leaf, \* Node(): the value a fresh node's is_leaf has
  set_order,    \* iteration order of unordered_set<int> over 0..MaxFeat-1
  inputs,       \* the datasets the caller holds
  trees,        \* trees_[t]: node id -> Node; root 1, children 2n and 2n+1
  hist,         \* per tree, the inputs it was trained on directly, in order
  pc,
  cur,          \* the tree DecisionTree::train is running on
  data_vec,     \* argument of the running or last DecisionTree::train
  features, labels, \* train's local vectors
  orig,         \* orig[i]: the row of data_vec that features[i] was copied from
  sampled,      \* modifiable_sample_features, as the sequence of its iteration
  stack,        \* pending build_tree calls, innermost first
  calls,        \* the partition_data calls of the running or last train
  marked,       \* the leaves build_tree marked in the running or last train
  garbage,      \* per tree, whether its running or last train read an indeterminate value
  query, result, \* the argument and the return value, if the last call was predict
  impl,         \* which RandomForest.h is built: 0 is part_000, 1 is part_001
  ret,          \* where the running calls return to, innermost first
  train_data,   \* RandomForest::train's training partition
  ti,           \* RandomForest::train's loop index over trees_
  forest_trained,
  predictions,  \* what each tree predicted, if the last call was RandomForest::predict
  accuracy,     \* the return value, if the last call was evaluate
  tested,       \* the argument, if the last call was evaluate
  kf            \* the running kFoldCrossValidation's locals

vars == <<default_leaf, set_order, inputs, trees, hist, pc, cur, data_vec,
          features, labels, orig, sampled, stack, calls, marked, garbage, query, result,
          impl, ret, train_data, ti, forest_trained, predictions, accuracy, tested, kf>>

\* ------------------------------------------------------------------ Node
NoLabel == -1
Undefined == -2
NoQuery == [tree |-> -1, feature |-> EmptyVec]
NoKFold == [started |-> FALSE]
NoAccuracy == [nan |-> FALSE, num |-> -1, den |-> 1]

\* Node.h is not among the sources.  build_tree sets is_leaf only to true and
\* predict descends only through nodes whose is_leaf is false, so a built tree
\* has split nodes only if Node() leaves is_leaf false: the specifications
\* take that default, and SpecRetrain takes the other one as well.  NoLabel
\* stands for the label of a node that was never labelled.
NewNode == [is_leaf |-> default_leaf, label |-> NoLabel, feature_index |-> -1,
            threshold |-> 0, gini_index |-> [num |-> 0, den |-> 1]]

NewTree == [id \in {1} |-> NewNode]

RECURSIVE IsDesc(_, _)
IsDesc(id, node) == id > node /\ (id \div 2 = node \/ IsDesc(id \div 2, node))

\* ---------------------------------------------------------- DecisionTree
GiniMax == [num |-> 1, den |-> 0]
GiniLess(a, b) ==
  IF a.den = 0 THEN FALSE
  ELSE IF b.den = 0 THEN TRUE
  ELSE a.num * b.den < b.num * a.den

Count(lab, lo, hi, c) == Cardinality({j \in lo..hi : lab[j] = c})
LabelsIn(lab, lo, hi) == {lab[j] : j \in lo..hi}

RECURSIVE SumSq(_, _, _, _)
SumSq(lab, lo, hi, cs) ==
  IF cs = {} THEN 0
  ELSE LET c == CHOOSE x \in cs : TRUE
       IN Count(lab, lo, hi, c) * Count(lab, lo, hi, c) + SumSq(lab, lo, hi, cs \ {c})

\* weighted Gini of the split of start..end-1 with left side start..i:
\* (left_gini * ls + right_gini * rs) / (ls + rs), side gini = 1 - sum p^2
calculate_gini_index(lab, start, end, i) ==
  LET ls == i - start + 1
      rs == end - 1 - i
      A == SumSq(lab, start, i, LabelsIn(lab, start, end - 1))
      B == SumSq(lab, i + 1, end - 1, LabelsIn(lab, start, end - 1))
  IN [num |-> (ls * ls - A) * rs + (rs * rs - B) * ls, den |-> ls * rs * (ls + rs)]

RECURSIVE fbs_loop(_, _, _, _, _, _, _)
fbs_loop(feat, lab, start, end, fi, i, best) ==
  IF i >= end - 1 THEN best
  ELSE LET g == calculate_gini_index(lab, start, end, i)
           take == feat[i][fi] # feat[i + 1][fi] /\ GiniLess(g, best.gini)
       IN fbs_loop(feat, lab, start, end, fi, i + 1,
                   IF take THEN [gini |-> g, threshold |-> (feat[i][fi] + feat[i + 1][fi]) \div 2]
                   ELSE best)

find_best_split(feat, lab, start, end, fi) ==
  fbs_loop(feat, lab, start, end, fi, start, [gini |-> GiniMax, threshold |-> 0])

should_be_leaf(lab, start, end) == \A i \in (start + 1)..(end - 1) : lab[i] = lab[start]

\* map<int,int> iterates by ascending label and keeps the first strict maximum
determine_label(lab, start, end) ==
  LET cs == LabelsIn(lab, start, end - 1)
  IN CHOOSE c \in cs :
       /\ \A d \in cs : Count(lab, start, end - 1, d) <= Count(lab, start, end - 1, c)
       /\ \A d \in cs : Count(lab, start, end - 1, d) = Count(lab, start, end - 1, c) => c <= d

\* the loop over sampled_features of build_tree; best_feature -1 and an
\* indeterminate best_threshold (thr = Undefined) until some feature is taken
RECURSIVE bt_loop(_, _, _, _, _, _, _)
bt_loop(feat, lab, start, end, order, k, best) ==
  IF k > Len(order) THEN best
  ELSE LET r == find_best_split(feat, lab, start, end, order[k])
       IN bt_loop(feat, lab, start, end, order, k + 1,
                  IF GiniLess(r.gini, best.gini)
                  THEN [gini |-> r.gini, feature |-> order[k], threshold |-> r.threshold]
                  ELSE best)

best_split(feat, lab, start, end, order) ==
  bt_loop(feat, lab, start, end, order, 1,
          [gini |-> GiniMax, feature |-> -1, threshold |-> Undefined])

Swap(v, a, b) == [v EXCEPT ![a] = v[b], ![b] = v[a]]

\* partition_data's loop; st = [f, o, mid].  With feature_index -1 the
\* comparison reads features[i][-1], out of range: oob[i] is what it yields.
RECURSIVE pd_loop(_, _, _, _, _, _, _)
pd_loop(st, start, end, fi, threshold, oob, i) ==
  IF i >= end THEN st
  ELSE LET lt == IF fi = -1 THEN oob[i] ELSE st.f[i][fi] < threshold
       IN pd_loop(IF lt THEN [f |-> Swap(st.f, st.mid, i), o |-> Swap(st.o, st.mid, i),
                              mid |-> st.mid + 1]
                  ELSE st,
                  start, end, fi, threshold, oob, i + 1)

\* partition_data without its degenerate guard
partition_data_unforced(feat, og, start, end, fi, threshold, oob) ==
  pd_loop([f |-> feat, o |-> og, mid |-> start], start, end, fi, threshold, oob, start)

partition_data(feat, og, start, end, fi, threshold, oob) ==
  LET st == pd_loop([f |-> feat, o |-> og, mid |-> start], start, end, fi, threshold, oob, start)
  IN [st EXCEPT !.mid = IF st.mid = start \/ st.mid = end
                        THEN start + (end - start) \div 2 ELSE st.mid]

\* DecisionTree::predict: the labels the descent can return; Undefined when it
\* dereferences a null child; either branch, or a fault, where it reads feature[-1]
RECURSIVE descend(_, _, _)
descend(T, node, q) ==
  IF node \notin DOMAIN T THEN {Undefined}
  ELSE IF T[node].is_leaf THEN {T[node].label}
  ELSE IF T[node].feature_index = -1
       THEN descend(T, 2 * node, q) \cup descend(T, 2 * node + 1, q) \cup {Undefined}
  ELSE IF q[T[node].feature_index] < T[node].threshold
       THEN descend(T, 2 * node, q)
       ELSE descend(T, 2 * node + 1, q)

predict(T, q) == descend(T, 1, q)

\* --------------------------------------------------------------- actions
NumFeatures(dv) == Size(dv[0]) - 1

env == <<default_leaf, set_order, impl, inputs>>
treeLocals == <<cur, data_vec, features, labels, orig, sampled, stack, calls, marked, garbage>>
forestVars == <<train_data, ti, forest_trained, predictions, accuracy, tested>>

\* DecisionTree::train up to its call of build_tree, on tree t with data dv
BeginTrain(t, dv) ==
  /\ cur' = t
  /\ data_vec' = dv
  /\ calls' = {}
  /\ marked' = {}
  /\ garbage' = [garbage EXCEPT ![t] = FALSE]
  /\ IF Size(dv) = 0
     THEN \* data_vec[0] of an empty vector
          /\ pc' = "undefined"
          /\ UNCHANGED <<features, labels, orig, sampled, stack>>
     ELSE /\ pc' = "build"
          /\ sampled' = SelectSeq(set_order, LAMBDA f : f < NumFeatures(dv))
          /\ features' = [i \in DOMAIN dv |-> [c \in 0..(NumFeatures(dv) - 1) |-> dv[i][c]]]
          /\ labels' = [i \in DOMAIN dv |-> dv[i][NumFeatures(dv)]]
          /\ orig' = [i \in DOMAIN dv |-> i]
          /\ stack' = <<[node |-> 1, start |-> 0, end |-> Size(dv)]>>

\* a caller trains tree t directly on one of its datasets (no more often than
\* it holds datasets)
TreeTrain(t, j) ==
  /\ pc = "idle"
  /\ Len(hist[t]) < Len(inputs)
  /\ BeginTrain(t, inputs[j])
  /\ ret' = <<"idle">>
  /\ hist' = [hist EXCEPT ![t] = Append(@, j)]
  /\ query' = NoQuery
  /\ result' = NoLabel
  /\ UNCHANGED <<env, trees, forestVars, kf>>

\* one call of build_tree, up to its two recursive calls
BuildTree ==
  /\ pc = "build"
  /\ stack # <<>>
  /\ LET node == Head(stack).node
         start == Head(stack).start
         end == Head(stack).end
         T == trees[cur]
     IN IF start >= end
        THEN /\ stack' = Tail(stack)
             /\ UNCHANGED <<trees, features, orig, calls, marked, garbage, pc>>
        ELSE IF should_be_leaf(labels, start, end)
        THEN /\ trees' = [trees EXCEPT ![cur][node].is_leaf = TRUE,
                                       ![cur][node].label = determine_label(labels, start, end)]
             /\ marked' = marked \cup {[node |-> node, start |-> start, end |-> end,
                                        rows |-> {orig[i] : i \in start..(end - 1)}]}
             /\ stack' = Tail(stack)
             /\ UNCHANGED <<features, orig, calls, garbage, pc>>
        ELSE LET b == best_split(features, labels, start, end, sampled)
                 kept == {id \in DOMAIN T : ~IsDesc(id, node)} \cup {2 * node, 2 * node + 1}
                 T2 == [id \in kept |->
                          IF id = node
                          THEN [T[node] EXCEPT !.feature_index = b.feature,
                                               !.threshold = b.threshold,
                                               !.gini_index = b.gini]
                          ELSE IF id \in {2 * node, 2 * node + 1} THEN NewNode
                          ELSE T[id]]
             IN /\ trees' = [trees EXCEPT ![cur] = T2]
                /\ garbage' = [garbage EXCEPT ![cur] = (@ \/ b.feature = -1)]
                /\ \/ \E oob \in (IF b.feature = -1 THEN [start..(end - 1) -> BOOLEAN]
                                  ELSE {[i \in start..(end - 1) |-> FALSE]}) :
                        LET p == partition_data(features, orig, start, end, b.feature,
                                                b.threshold, oob)
                        IN /\ features' = p.f
                           /\ orig' = p.o
                           /\ calls' = calls \cup {[node |-> node, start |-> start, end |-> end,
                                                    feature_index |-> b.feature, mid |-> p.mid]}
                           /\ stack' = <<[node |-> 2 * node, start |-> start, end |-> p.mid],
                                         [node |-> 2 * node + 1, start |-> p.mid, end |-> end]>>
                                       \o Tail(stack)
                           /\ pc' = pc
                   \/ \* features[i][-1] faults
                      /\ b.feature = -1
                      /\ pc' = "undefined"
                      /\ calls' = calls \cup {[node |-> node, start |-> start, end |-> end,
                                               feature_index |-> b.feature, mid |-> Undefined]}
                      /\ UNCHANGED <<features, orig, stack>>
                /\ UNCHANGED marked
  /\ UNCHANGED <<env, hist, cur, data_vec, labels, sampled, ret, query, result, forestVars, kf>>

\* build_tree returned to train and train to its caller: the direct caller, or
\* the loop over trees_ of RandomForest::train
TrainReturn ==
  /\ pc = "build"
  /\ stack = <<>>
  /\ pc' = Head(ret)
  /\ ret' = Tail(ret)
  /\ IF Head(ret) = "forest"
     THEN \* the iteration's bootstrap_sample and what is recorded of its train go
          /\ ti' = ti + 1
          /\ cur' = 0
          /\ data_vec' = EmptyVec
          /\ features' = EmptyVec
          /\ labels' = EmptyVec
          /\ orig' = EmptyVec
          /\ sampled' = <<>>
          /\ calls' = {}
          /\ marked' = {}
          /\ garbage' = [t \in DOMAIN garbage |-> FALSE]
          /\ UNCHANGED stack
     ELSE UNCHANGED <<ti, treeLocals>>
  /\ UNCHANGED <<env, trees, hist, query, result, train_data, forest_trained,
                 predictions, accuracy, tested, kf>>

\* DecisionTree::predict on a trained tree, for a query of the trained arity
Predict(t, q) ==
  /\ pc = "idle"
  /\ hist[t] # <<>>
  /\ Size(inputs[hist[t][Len(hist[t])]]) > 0
  /\ Size(q) = NumFeatures(inputs[hist[t][Len(hist[t])]])
  /\ \E r \in predict(trees[t], q) :
        /\ result' = r
        /\ pc' = IF r = Undefined THEN "undefined" ELSE "done"
  /\ query' = [tree |-> t, feature |-> q]
  /\ UNCHANGED <<env, trees, hist, treeLocals, ret, forestVars, kf>>

Queries == UNION {Vec(nf, Vals) : nf \in 0..MaxFeat}

\* ---------------------------------------------------------- RandomForest
FeaturesOf(row) == [c \in 0..(Size(row) - 2) |-> row[c]]
LabelOf(row) == row[Size(row) - 1]

\* the row sequences of length m drawn from dv: injective is a prefix of a
\* shuffle (splitData), any is a bootstrap sample (draws with replacement)
Draws(dv, m, injective) ==
  {[i \in 0..(m - 1) |-> dv[p[i]]] :
     p \in {x \in [0..(m - 1) -> DOMAIN dv] :
              injective => \A a, b \in 0..(m - 1) : x[a] = x[b] => a = b}}

\* static_cast<int>(data.size() * (1 - test_size)) with test_size 0.2
split_index(n) == (n * 4) \div 5

\* RandomForest::train up to its loop over the trees: part_000 holds out a
\* fifth of the shuffled rows, part_001 samples from all of data_vec
BeginForestTrain(dv) ==
  /\ train_data' \in (IF impl = 0 THEN Draws(dv, split_index(Size(dv)), TRUE) ELSE {dv})
  /\ ti' = 0
  /\ pc' = "forest"

ForestTrain(j) ==
  /\ pc = "idle"
  /\ ~forest_trained
  /\ BeginForestTrain(inputs[j])
  /\ ret' = <<"idle">>
  /\ UNCHANGED <<env, trees, hist, treeLocals, query, result, forest_trained, predictions,
                 accuracy, tested, kf>>

\* one iteration of train's loop: a bootstrap sample of train_data's size,
\* and DecisionTree::train of trees_[ti] on it
ForestTrainTree ==
  /\ pc = "forest"
  /\ ti < Size(trees)
  /\ \E sample \in Draws(train_data, Size(train_data), FALSE) : BeginTrain(ti, sample)
  /\ ret' = <<"forest">> \o ret
  /\ UNCHANGED <<env, trees, hist, query, result, forestVars, kf>>

\* train's loop is over and train returns
ForestTrainDone ==
  /\ pc = "forest"
  /\ ti = Size(trees)
  /\ pc' = Head(ret)
  /\ ret' = Tail(ret)
  /\ forest_trained' = TRUE
  /\ train_data' = EmptyVec
  /\ ti' = 0
  /\ UNCHANGED <<env, trees, hist, treeLocals, query, result, predictions, accuracy, tested, kf>>

Outcomes == Labels \cup {NoLabel, Undefined}

\* what the trees of the forest can each predict for q
TreePreds(q) ==
  LET P == [t \in DOMAIN trees |-> predict(trees[t], q)]
  IN {p \in [DOMAIN trees -> UNION {P[t] : t \in DOMAIN trees}] :
        \A t \in DOMAIN trees : p[t] \in P[t]}

Votes(p, c) == Cardinality({t \in DOMAIN p : p[t] = c})

\* part_000: map<int,int> vote_count, scanned by ascending label for the
\* first strict maximum
predict_map(p) ==
  IF \E t \in DOMAIN p : p[t] = Undefined THEN {Undefined}
  ELSE {CHOOSE c \in {p[t] : t \in DOMAIN p} :
          \A d \in {p[t] : t \in DOMAIN p} :
            Votes(p, d) < Votes(p, c) \/ (Votes(p, d) = Votes(p, c) /\ c <= d)}

\* part_001: vector<int> votes(num_trees_, 0) indexed by the prediction, and
\* the first max_element; a prediction outside 0..num_trees_-1 writes out of
\* range, after which any index, or a fault, is the outcome
predict_vec(p) ==
  LET idx == 0..(Size(p) - 1)
  IN IF \E t \in DOMAIN p : p[t] = Undefined THEN {Undefined}
     ELSE IF \E t \in DOMAIN p : p[t] \notin idx THEN idx \cup {Undefined}
     ELSE {CHOOSE c \in idx :
             \A d \in idx : Votes(p, d) < Votes(p, c) \/ (Votes(p, d) = Votes(p, c) /\ c <= d)}

forest_predict(p) == IF impl = 0 THEN predict_map(p) ELSE predict_vec(p)

ForestResults(q) == UNION {forest_predict(p) : p \in TreePreds(q)}

\* RandomForest::predict on a trained forest
ForestPredict(q) ==
  /\ pc = "idle"
  /\ forest_trained
  /\ Size(q) = NumFeatures(inputs[1])
  /\ \E p \in TreePreds(q) :
       /\ predictions' = p
       /\ \E r \in forest_predict(p) :
            /\ result' = r
            /\ pc' = IF r = Undefined THEN "undefined" ELSE "done"
  /\ query' = [tree |-> -1, feature |-> q]
  /\ accuracy' = NoAccuracy
  /\ tested' = EmptyVec
  /\ UNCHANGED <<env, trees, hist, treeLocals, ret, train_data, ti, forest_trained, kf>>

\* static_cast<double>(correct_predictions) / test_data.size() for the
\* predictions outs of the rows of test
evaluate(test, outs) ==
  LET correct == Cardinality({i \in DOMAIN test : outs[i] = LabelOf(test[i])})
  IN [nan |-> Size(test) = 0, num |-> correct, den |-> Size(test)]

\* what predict can return for each row of test
Evaluations(test) ==
  LET R == [i \in DOMAIN test |-> ForestResults(FeaturesOf(test[i]))]
  IN {outs \in [DOMAIN test -> UNION {R[i] : i \in DOMAIN test}] :
        \A i \in DOMAIN test : outs[i] \in R[i]}

\* RandomForest::evaluate on a trained forest
Evaluate(test) ==
  /\ pc = "idle"
  /\ forest_trained
  /\ \E outs \in Evaluations(test) :
       IF \E i \in DOMAIN test : outs[i] = Undefined
       THEN pc' = "undefined" /\ accuracy' = NoAccuracy
       ELSE pc' = "done" /\ accuracy' = evaluate(test, outs)
  /\ tested' = test
  /\ query' = NoQuery
  /\ result' = NoLabel
  /\ predictions' = EmptyVec
  /\ UNCHANGED <<env, trees, hist, treeLocals, ret, train_data, ti, forest_trained, kf>>

\* ------------------------------------------------- one DecisionTree (Spec)
InitCommon ==
  /\ pc = "idle"
  /\ ret = <<>>
  /\ cur = 0
  /\ data_vec = EmptyVec
  /\ features = EmptyVec
  /\ labels = EmptyVec
  /\ orig = EmptyVec
  /\ sampled = <<>>
  /\ stack = <<>>
  /\ calls = {}
  /\ marked = {}
  /\ query = NoQuery
  /\ result = NoLabel
  /\ train_data = EmptyVec
  /\ ti = 0
  /\ forest_trained = FALSE
  /\ predictions = EmptyVec
  /\ accuracy = NoAccuracy
  /\ tested = EmptyVec
  /\ kf = NoKFold

Init ==
  /\ InitCommon
  /\ default_leaf = FALSE
  /\ set_order \in Perms(MaxFeat)
  /\ impl = 0
  /\ inputs \in {<<d>> : d \in TreeDatasets}
  /\ trees = [t \in {0} |-> NewTree]
  /\ hist = [t \in {0} |-> <<>>]
  /\ garbage = [t \in {0} |-> FALSE]

Next ==
  \/ \E t \in DOMAIN trees, j \in 1..Len(inputs) : TreeTrain(t, j)
  \/ BuildTree
  \/ TrainReturn
  \/ \E t \in DOMAIN trees, q \in Queries : Predict(t, q)

Spec == Init /\ [][Next]_vars

\* ------------------------- two DecisionTree objects and two datasets (SpecRetrain)
RetrainDatasets == DatasetsOf(1, RetrainRows) \ {EmptyVec}

InitRetrain ==
  /\ InitCommon
  /\ default_leaf \in BOOLEAN
  /\ set_order \in Perms(1)
  /\ impl = 0
  /\ inputs \in {<<d1, d2>> : d1, d2 \in RetrainDatasets}
  /\ trees = [t \in {0, 1} |-> NewTree]
  /\ hist = [t \in {0, 1} |-> <<>>]
  /\ garbage = [t \in {0, 1} |-> FALSE]

SpecRetrain == InitRetrain /\ [][Next]_vars

\* ------------------------------------------- one RandomForest (SpecForest)
ForestDatasets == DatasetsOf(1, ForestRows)

InitForest ==
  /\ InitCommon
  /\ default_leaf = FALSE
  /\ set_order \in Perms(1)
  /\ impl \in {0, 1}
  /\ inputs \in {<<d>> : d \in ForestDatasets}
  /\ \E num_trees \in 1..MaxTrees :
       /\ trees = [t \in 0..(num_trees - 1) |-> NewTree]
       /\ hist = [t \in 0..(num_trees - 1) |-> <<>>]
       /\ garbage = [t \in 0..(num_trees - 1) |-> FALSE]

NextForest ==
  \/ ForestTrain(1)
  \/ ForestTrainTree
  \/ BuildTree
  \/ TrainReturn
  \/ ForestTrainDone
  \/ \E q \in Queries : ForestPredict(q)
  \/ \E test \in ForestDatasets : Evaluate(test)

SpecForest == InitForest /\ [][NextForest]_vars

\* ------------------------------------------------- kFoldCrossValidation
\* C++ int division truncates toward zero
IntDiv(a, b) == IF b > 0 THEN a \div b ELSE -(a \div (-b))

fold_start(i, foldSize) == i * foldSize
\* fold_end without the last fold's remainder
fold_end_even(i, k, foldSize, n) == (i + 1) * foldSize

\* the last fold includes all remaining elements
fold_end(i, k, foldSize, n) == IF i = k - 1 THEN n ELSE (i + 1) * foldSize

Push(v, x) == [j \in 0..Size(v) |-> IF j = Size(v) THEN x ELSE v[j]]

\* the loop over j: data[indices[j]] goes to testSet for start <= j < end and
\* to trainSet otherwise; acc = [test, train]
RECURSIVE fold_sets(_, _, _, _, _, _)
fold_sets(data, indices, start, end, j, acc) ==
  IF j >= Size(data) THEN acc
  ELSE fold_sets(data, indices, start, end, j + 1,
                 IF j >= start /\ j < end
                 THEN [acc EXCEPT !.test = Push(@, data[indices[j]])]
                 ELSE [acc EXCEPT !.train = Push(@, data[indices[j]])])

RECURSIVE Product(_, _)
Product(scores, j) == IF j > Len(scores) THEN 1 ELSE scores[j].den * Product(scores, j + 1)

RECURSIVE CrossSum(_, _)
CrossSum(scores, j) ==
  IF j > Len(scores) THEN 0
  ELSE scores[j].num * (Product(scores, 1) \div scores[j].den) + CrossSum(scores, j + 1)

\* accumulate(scores, 0.0) / scores.size()
average(scores) ==
  IF Len(scores) = 0 \/ \E j \in 1..Len(scores) : scores[j].nan
  THEN [nan |-> TRUE, num |-> 0, den |-> 0]
  ELSE [nan |-> FALSE, num |-> CrossSum(scores, 1), den |-> Len(scores) * Product(scores, 1)]

ShuffledIndices(n) == {p \in Vec(n, 0..(n - 1)) : \A a, b \in 0..(n - 1) : p[a] = p[b] => a = b}

\* kFoldCrossValidation(data, k) and KFoldCrossValidation::perform(data, k,
\* num_trees) up to the loop over the folds
KFoldStart(k) ==
  /\ pc = "idle"
  /\ ~kf.started
  /\ \E indices \in ShuffledIndices(Size(inputs[1])) :
       kf' = [started |-> TRUE, k |-> k, indices |-> indices,
              foldSize |-> IF k = 0 THEN 0 ELSE IntDiv(Size(inputs[1]), k),
              i |-> 0, scores |-> <<>>, folds |-> <<>>, testSet |-> EmptyVec,
              averageScore |-> NoAccuracy]
  /\ pc' = IF k = 0 THEN "undefined" ELSE "kfold"  \* n / 0
  /\ UNCHANGED <<env, trees, hist, treeLocals, ret, query, result, forestVars>>

\* one iteration up to model.train(trainSet): the fold's sets and a new forest
KFoldIter ==
  /\ pc = "kfold"
  /\ kf.i < kf.k
  /\ LET n == Size(inputs[1])
         start == fold_start(kf.i, kf.foldSize)
         end == fold_end(kf.i, kf.k, kf.foldSize, n)
         sets == fold_sets(inputs[1], kf.indices, start, end, 0,
                           [test |-> EmptyVec, train |-> EmptyVec])
     IN /\ kf' = [kf EXCEPT
                    !.testSet = sets.test,
                    !.folds = Append(@, [test |-> {j \in 0..(n - 1) : j >= start /\ j < end},
                                         train |-> {j \in 0..(n - 1) : ~(j >= start /\ j < end)}])]
        /\ BeginForestTrain(sets.train)
  /\ trees' = [t \in DOMAIN trees |-> NewTree]
  /\ forest_trained' = FALSE
  /\ ret' = <<"kfold_eval">>
  /\ UNCHANGED <<env, hist, treeLocals, query, result, predictions, accuracy, tested>>

\* the rest of the iteration: model.evaluate(testSet) and scores.push_back;
\* model, trainSet and testSet end with the iteration
KFoldEvaluate ==
  /\ pc = "kfold_eval"
  /\ \E outs \in Evaluations(kf.testSet) :
       IF \E i \in DOMAIN kf.testSet : outs[i] = Undefined
       THEN pc' = "undefined" /\ UNCHANGED <<kf, trees, forest_trained>>
       ELSE /\ pc' = "kfold"
            /\ kf' = [kf EXCEPT !.scores = Append(@, evaluate(kf.testSet, outs)),
                                !.i = @ + 1,
                                !.testSet = EmptyVec]
            /\ trees' = [t \in DOMAIN trees |-> NewTree]
            /\ forest_trained' = FALSE
  /\ UNCHANGED <<env, hist, treeLocals, ret, query, result, train_data, ti, predictions,
                 accuracy, tested>>

\* the loop is over: the average is returned
KFoldFinish ==
  /\ pc = "kfold"
  /\ kf.i >= kf.k
  /\ kf' = [kf EXCEPT !.averageScore = average(kf.scores)]
  /\ pc' = "done"
  /\ UNCHANGED <<env, trees, hist, treeLocals, ret, query, result, forestVars>>

\* --------------------------- cross-validation of one dataset (SpecKFold)
\* with the RandomForest.h that declares kFoldCrossValidation (part_000) and
\* a forest of one tree
\* rows of one feature that tells the label
KFoldRowSet == {[c \in 0..1 |-> IF c = 0 THEN 2 * l ELSE l] : l \in Labels}
KFoldDatasets == UNION {Vec(n, KFoldRowSet) : n \in 0..KFoldRows}

InitKFold ==
  /\ InitCommon
  /\ default_leaf = FALSE
  /\ set_order \in Perms(1)
  /\ impl = 0
  /\ inputs \in {<<d>> : d \in KFoldDatasets}
  /\ trees = [t \in {0} |-> NewTree]
  /\ hist = [t \in {0} |-> <<>>]
  /\ garbage = [t \in {0} |-> FALSE]

NextKFold ==
  \/ \E k \in (-1)..(Size(inputs[1]) + 1) : KFoldStart(k)
  \/ KFoldIter
  \/ ForestTrainTree
  \/ BuildTree
  \/ TrainReturn
  \/ ForestTrainDone
  \/ KFoldEvaluate
  \/ KFoldFinish

SpecKFold == InitKFold /\ [][NextKFold]_vars

\* ------------------------------------------------ properties of one tree
Trained == pc \in {"idle", "done"} /\ hist[cur] # <<>>

\* no two rows with the same features and different labels
NoConflict(dv) ==
  \A i, j \in DOMAIN dv : FeaturesOf(dv[i]) = FeaturesOf(dv[j]) => LabelOf(dv[i]) = LabelOf(dv[j])

RECURSIVE Reaches(_, _)
\* predict's descent can arrive at node: every proper ancestor is a split node
Reaches(T, node) == node = 1 \/ (~T[node \div 2].is_leaf /\ Reaches(T, node \div 2))

\* C2: a tree trained directly on a dataset without conflicting rows predicts
\* every training row's own label
C2_Memorization ==
  (Trained /\ query # NoQuery /\ NoConflict(data_vec))
    => \A i \in DOMAIN data_vec :
         FeaturesOf(data_vec[i]) = query.feature => result = LabelOf(data_vec[i])

\* C3: every leaf predict can reach was marked over a range whose rows, with
\* their original labels, all carry the leaf's label
C3_Purity ==
  Trained =>
    \A m \in marked :
      (m.node \in DOMAIN trees[cur] /\ Reaches(trees[cur], m.node))
        => \A r \in m.rows : LabelOf(data_vec[r]) = trees[cur][m.node].label

\* C8: every partition_data call of build_tree is on a range of at least two
\* rows and returns mid strictly inside it; build_tree never gets an empty range
C8_Progress ==
  /\ \A c \in calls :
       c.mid # Undefined => (c.end - c.start >= 2 /\ c.start < c.mid /\ c.mid < c.end)
  /\ \A k \in 1..Len(stack) : stack[k].start < stack[k].end

C8_Witness ==
  /\ Trained
  /\ \E c \in calls : c.feature_index = -1 /\ c.mid # Undefined
  /\ \E c \in calls : c.feature_index # -1 /\ c.end - c.start = MaxRows

\* C9: during and after train, features[i] and labels[i] are the features and
\* the label of one row of the training data
C9_Alignment ==
  (pc \in {"build", "idle", "done"} /\ Size(data_vec) > 0)
    => \A i \in DOMAIN features :
         \E r \in DOMAIN data_vec :
           FeaturesOf(data_vec[r]) = features[i] /\ LabelOf(data_vec[r]) = labels[i]

\* C10: no split is made on feature index -1: partition_data is not called
\* with it and no split node carries it
C10_Fallback ==
  /\ \A c \in calls : c.feature_index # -1
  /\ \A id \in DOMAIN trees[cur] :
       (2 * id \in DOMAIN trees[cur] /\ ~trees[cur][id].is_leaf)
         => trees[cur][id].feature_index # -1

\* C6: a tree trained on inputs[1] and then on inputs[2] predicts what a fresh
\* tree trained on inputs[2] alone predicts (trainings that read no
\* indeterminate value, so that both make the same draws)
C6_RetrainDiscards ==
  (/\ pc = "idle"
   /\ DOMAIN trees = {0, 1}
   /\ hist[0] = <<1, 2>> /\ hist[1] = <<2>>
   /\ ~garbage[0] /\ ~garbage[1])
    => \A q \in Vec(NumFeatures(inputs[2]), Vals) : predict(trees[0], q) = predict(trees[1], q)

\* ----------------------------------------------- properties of the forest
Predicted == pc = "done" /\ predictions # EmptyVec

\* C1: RandomForest::predict returns a label some tree voted for, with no
\* label having more votes and no smaller label having as many
C1_VoteTally ==
  Predicted =>
    /\ Votes(predictions, result) >= 1
    /\ \A t \in DOMAIN predictions :
         /\ Votes(predictions, predictions[t]) <= Votes(predictions, result)
         /\ Votes(predictions, predictions[t]) = Votes(predictions, result)
              => result <= predictions[t]

\* the same of part_000 alone
VoteTallyOfMap == impl = 0 => C1_VoteTally

Evaluated == pc = "done" /\ accuracy # NoAccuracy

InUnit(a) == ~a.nan /\ 0 <= a.num /\ a.num <= a.den /\ a.den > 0

\* C5: evaluate returns correct/total, a defined value in [0,1], the empty
\* test set included, and kFoldCrossValidation returns a defined mean in [0,1]
C5_AccuracyBounds ==
  /\ Evaluated => (InUnit(accuracy) /\ accuracy.den = Size(tested))
  /\ (kf.started /\ pc = "done") => InUnit(kf.averageScore)

\* C7: train of an empty dataset and kFoldCrossValidation with k < 1 or k > n
\* end in an invalid-argument error: once called, nothing else follows
C7_FailFast ==
  /\ (Size(inputs[1]) = 0 /\ ~kf.started /\ pc # "idle") => pc = "invalid_argument"
  /\ (kf.started /\ (kf.k < 1 \/ kf.k > Size(inputs[1]))) => pc = "invalid_argument"

\* C4: for 1 <= k <= n, once the k folds are made, every row index is in the
\* test set of exactly one fold and in the train set of the k-1 others; the
\* test sets are disjoint, cover 0..n-1, and the last takes the remainder
C4_Coverage ==
  LET n == Size(inputs[1])
      rowsOf(S) == {kf.indices[j] : j \in S}
  IN (kf.started /\ 1 <= kf.k /\ kf.k <= n) =>
       /\ \A f, g \in 1..Len(kf.folds) :
            f # g => rowsOf(kf.folds[f].test) \cap rowsOf(kf.folds[g].test) = {}
       /\ \A f \in 1..Len(kf.folds) :
            /\ rowsOf(kf.folds[f].train) = (0..(n - 1)) \ rowsOf(kf.folds[f].test)
            /\ Cardinality(rowsOf(kf.folds[f].test))
                 = IF f = kf.k THEN n - (kf.k - 1) * (n \div kf.k) ELSE n \div kf.k
       /\ Len(kf.folds) = kf.k =>
            \A r \in 0..(n - 1) :
              /\ Cardinality({f \in 1..kf.k : r \in rowsOf(kf.folds[f].test)}) = 1
              /\ Cardinality({f \in 1..kf.k : r \in rowsOf(kf.folds[f].train)}) = kf.k - 1

C4_Witness ==
  /\ kf.started /\ kf.k = 2 /\ Size(inputs[1]) = 3
  /\ Len(kf.folds) = 2
  /\ Cardinality(kf.folds[2].test) = 2

\* ------------------------------------------------ properties of the splits
\* the Gini impurity 1 - sum p^2 of labels[start..end-1], as a fraction
RangeGini(lab, start, end) ==
  LET n == end - start
  IN [num |-> n * n - SumSq(lab, start, end - 1, LabelsIn(lab, start, end - 1)), den |-> n * n]

\* the impurity on the node of the partition_data call c is in [0,1] and is no
\* more than the impurity of the labels of the call's range
SplitMonotone(c) ==
  LET g == trees[cur][c.node].gini_index
      p == RangeGini(labels, c.start, c.end)
  IN /\ g.den > 0
     /\ 0 <= g.num /\ g.num <= g.den
     /\ g.num * p.den <= p.num * g.den

\* C11: every split node build_tree creates records an impurity in [0,1] that
\* is at most the Gini impurity of the labels of its unsplit range
C11_Monotonicity == \A c \in calls : SplitMonotone(c)

\* the same of the nodes split on a feature
MonotoneOnFeature == \A c \in calls : c.feature_index # -1 => SplitMonotone(c)

====
